---- MODULE Spec2Model ----
(***************************************************************************)
(* The chat endpoint of the restaurant recommendation assistant.           *)
(*                                                                         *)
(* Two versions of the POST handler live in the repository:                *)
(*   "multi"  - the multi-provider handler (Gemini, then OpenAI) with its  *)
(*              executeToolCall helper and the failover loop;              *)
(*   "single" - app/api/chat/route.ts, OpenAI only, with the per-tool      *)
(*              Promise.race time budget.                                  *)
(* One request is followed from its arrival to its HTTP response.  Every   *)
(* await of the code (a provider generation call, a search collaborator    *)
(* call) is a step boundary; the answer of the awaited party is the input  *)
(* of the next action.                                                     *)
(***************************************************************************)
EXTENDS Integers, Sequences, FiniteSets, TLC

VARIABLES
    handler,        \* which version of POST serves the request
    keys,           \* credentials present in process.env
    body,           \* the request body
    preferred,      \* body.preferredProvider
    now,            \* what new Date().toISOString() gives while the request is served
    pc,             \* where the handler is suspended
    avail,          \* availableProviders
    selected,       \* selectedProvider.name
    i,              \* index of the failover loop
    messages,       \* [systemMessage, ...body.messages]
    toolCalls,      \* tool calls returned by the first generation call
    k,              \* tool call being executed (1-based)
    timerFired,     \* the 15 s timer of the tool call in flight has fired
    toolResults,    \* results attached for the final generation call
    sources,        \* let sources
    finalResponse,  \* let finalResponse
    usedProvider,   \* let usedProvider
    response,       \* the HTTP response
    sentFirst,      \* log: conversation sent in the first generation call of the turn
    sentFinal,      \* log: conversation sent in the final generation call of the turn
    trace,          \* log: generation calls and tool executions of the turn, in order
    caught,         \* log: the error that reached the handler's error response
    attempts,       \* log: the providers attempted (line 183) and how each turn ended
    nGen,           \* log: number of provider generation calls made
    nTools,         \* log: number of tool calls executed
    produced,       \* log: sources of every tool result, in encounter order
    errorLog,       \* log switch: attempts also records the error each failed turn threw
    responseText,   \* GeminiService.generateResponse: the text makeGeminiRequest returned
    geminiResponse, \* GeminiService.generateResponse: the GeminiResponse it returns
    searched,       \* log: the search calls made for the tool queries of geminiResponse
    client,         \* which Reddit class holds the token cache
    accessToken,    \* this.accessToken
    tokenExpiry,    \* this.tokenExpiry
    clock,          \* Date.now(), in minutes
    tokenCalls,     \* the getAccessToken calls: where each is and what it saw and returned
    refreshes,      \* log: the token responses processed, in order
    chat,           \* ChatPage: the messages state
    input,          \* ChatPage: the input state
    isLoading,      \* ChatPage: the isLoading state
    shown,          \* ChatPage: the state as last rendered, which the handlers close over
    inFlight,       \* ChatPage: fetch calls that have not settled
    requests,       \* log: the chat requests sent, in order
    ignored,        \* log: why handleSubmit has returned early so far
    outcomes,       \* log: how each chat request settled, in order
    cleared,        \* log: clearChat has run and no message was submitted since
    providers,      \* lib/ai-providers.ts: the AI_PROVIDERS array
    env,            \* lib/ai-providers.ts: the keys in process.env
    available,      \* lib/ai-providers.ts: what getAvailableProviders returned
    tool,           \* executeToolCall: toolName, and the library version behind it
    backend,        \* what the Reddit API or the Brave API does when called
    searchOutcome,  \* what searchReddit or searchWeb returned or threw
    toolSources,    \* what executeToolCall returned as sources
    reported        \* the sources of the envelope that come from this tool call

\* the state of one request, pc apart
Request == << handler, keys, body, preferred, now, avail, selected, i, messages,
              toolCalls, k, timerFired, toolResults, sources, finalResponse,
              usedProvider, response, sentFirst, sentFinal, trace, caught,
              attempts, nGen, nTools, produced, errorLog >>

\* the state of the components studied on their own, which no request touches
Parser == << responseText, geminiResponse, searched >>
TokenCache == << client, accessToken, tokenExpiry, clock, tokenCalls, refreshes >>
Page == << chat, input, isLoading, shown, inFlight, requests, ignored, outcomes, cleared >>
Registry == << providers, env, available >>
Search == << tool, backend, searchOutcome, toolSources, reported >>
Aside == << Parser, TokenCache, Page, Registry, Search >>

vars == << pc, Request, Aside >>

-----------------------------------------------------------------------------
(* Bounds *)

MaxTools == 2       \* tool_calls of one OpenAI completion
MaxLines == 3       \* lines of one Gemini completion
MaxCallers == 2     \* getAccessToken calls on the shared Reddit service
MaxTime == 3        \* minutes the clock runs
MaxSubmits == 2     \* chat requests the page sends

-----------------------------------------------------------------------------
(* Generic sequence helpers *)

Range(s) == { s[n] : n \in 1..Len(s) }

SeqsUpTo(S, n) == UNION { [1..m -> S] : m \in 0..n }

\* Array.prototype.indexOf, 1-based; 0 when absent
IndexOf(s, x) ==
    IF x \in Range(s) THEN CHOOSE n \in 1..Len(s) : s[n] = x /\ \A m \in 1..(n-1) : s[m] # x
    ELSE 0

-----------------------------------------------------------------------------
(* Texts.  A text is the sequence of its lines and a line the sequence of   *)
(* its colon-separated fields; the empty string is << >> (no line of it    *)
(* matches any prefix and it contains no sentinel).                        *)

EmptyText == << >>
NoValue   == "undefined"
Line(word) == << word >>
Text(word) == << Line(word) >>

\* lines a Gemini completion is made of
LineKinds == { << "SEARCH_NEEDED" >>, << "REDDIT", "q", "sub" >>, << "REDDIT", "q" >>,
               << "WEB", "q" >>, << "prose" >> }
GeminiTexts == SeqsUpTo(LineKinds, MaxLines)

\* content of an OpenAI message: null, "" or text
Contents == { NoValue, "", "prose" }

Apology == Text("I apologize, but I encountered an issue processing your request.")
SingleApology == Text("I apologize, but I encountered an issue processing your request. However, I can still help with general restaurant recommendations.")
SingleTrouble == Text("I found some information but had trouble processing it. Let me provide what I can based on your request.")

\* content || fallback
OrElse(content, fallback) ==
    IF content = NoValue \/ content = "" THEN fallback ELSE Text(content)

-----------------------------------------------------------------------------
(* Requests *)

UserMsg      == [role |-> "user",      content |-> "best pizza"]
AssistantMsg == [role |-> "assistant", content |-> "try Lucali"]
BadRoleMsg   == [role |-> "admin",     content |-> "hi"]
NoContentMsg == [role |-> "user",      content |-> NoValue]

OffTopicMsg  == [role |-> "user",      content |-> "fix my car"]

BadJson == "bad json"
Bodies == { BadJson, << >>, << UserMsg, AssistantMsg >>, << UserMsg, BadRoleMsg >>,
            << NoContentMsg >>, << OffTopicMsg >> }

Preferred == { NoValue, "gemini", "openai" }

Handlers == { "multi", "single" }

SystemMessage == [role |-> "system", content |-> "system prompt"]

-----------------------------------------------------------------------------
(* Providers *)

AI_PROVIDERS == << [name |-> "gemini", enabled |-> TRUE, priority |-> 1],
                   [name |-> "openai", enabled |-> TRUE, priority |-> 2] >>

\* the module-level clients: constructed when the key is present at load
openaiClient(ks) == "OPENAI_API_KEY" \in ks
geminiClient(ks) == "GEMINI_API_KEY" \in ks

RECURSIVE InsertByPriority(_, _)
InsertByPriority(p, s) ==
    IF s = << >> THEN << p >>
    ELSE IF p.priority - Head(s).priority < 0 THEN << p >> \o s
    ELSE << Head(s) >> \o InsertByPriority(p, Tail(s))

RECURSIVE SortByPriority(_)
SortByPriority(s) ==
    IF s = << >> THEN << >>
    ELSE InsertByPriority(s[Len(s)], SortByPriority(SubSeq(s, 1, Len(s) - 1)))

ProviderHasKeyAnyKey(p, ks) == ks # {}

\* the filter callback: the key is in process.env now and the client was
\* constructed when the module was loaded.  The repository never writes
\* process.env, so both see the same keys.
ProviderHasKey(p, ks) ==
    IF p.name = "openai" THEN "OPENAI_API_KEY" \in ks /\ openaiClient(ks)
    ELSE IF p.name = "gemini" THEN "GEMINI_API_KEY" \in ks /\ geminiClient(ks)
    ELSE FALSE

getAvailableProvidersNoKeyCheck(ks) == SortByPriority(AI_PROVIDERS)

\* lines 35-39: the filter and the sort, on the array as it stands
AvailableIn(table, ks) ==
    SortByPriority(SelectSeq(table, LAMBDA p : ProviderHasKey(p, ks)))

getAvailableProviders(ks) == AvailableIn(AI_PROVIDERS, ks)

\* nothing returned yet
NotListed == << [name |-> NoValue, enabled |-> FALSE, priority |-> 0] >>

Names(ps) == [n \in 1..Len(ps) |-> ps[n].name]

\* lines 139-144: availableProviders[0], or the preferred one when found
SelectProvider(av, pref) ==
    IF pref # NoValue /\ pref \in Range(av) THEN pref ELSE av[1]

\* line 180: i === 0 ? selectedProvider : availableProviders[i]
currentProvider(sel, av, idx) == IF idx = 0 THEN sel ELSE av[idx + 1]

-----------------------------------------------------------------------------
(* Gemini text protocol (GeminiService.generateResponse) *)

\* responseText.includes('SEARCH_NEEDED')
HasSentinel(text) ==
    \E n \in 1..Len(text) : \E m \in 1..Len(text[n]) :
        text[n][m] \in { "SEARCH_NEEDED", "maybe SEARCH_NEEDED applies" }

\* line.startsWith(prefix + ':')
StartsWith(line, prefix) == Len(line) >= 2 /\ line[1] = prefix

ParseLineSubredditRequired(line) ==
    IF StartsWith(line, "REDDIT") /\ Len(line) >= 3
    THEN << [type |-> "search_reddit", query |-> << line[2] >>, subreddit |-> line[3]] >>
    ELSE IF StartsWith(line, "WEB")
    THEN << [type |-> "search_web", query |-> Tail(line), subreddit |-> NoValue] >>
    ELSE << >>

\* lines 108-121, the body of the loop: what one line pushes to toolQueries.
\* const [query, subreddit] = content.split(':') keeps the first two fields;
\* line.replace('WEB:', '') keeps everything after the prefix.
ParseLine(line) ==
    IF StartsWith(line, "REDDIT")
    THEN << [type |-> "search_reddit", query |-> << line[2] >>,
             subreddit |-> IF Len(line) >= 3 THEN line[3] ELSE NoValue] >>
    ELSE IF StartsWith(line, "WEB")
    THEN << [type |-> "search_web", query |-> Tail(line), subreddit |-> NoValue] >>
    ELSE << >>

\* lines 104-122: for (const line of lines)
RECURSIVE ParseLines(_)
ParseLines(lines) ==
    IF lines = << >> THEN << >>
    ELSE ParseLine(Head(lines)) \o ParseLines(Tail(lines))

generateResponse(text) ==
    IF HasSentinel(text)
    THEN [message |-> text, needsTools |-> TRUE, toolQueries |-> ParseLines(text)]
    ELSE [message |-> text, needsTools |-> FALSE, toolQueries |-> << >>]

\* what the variable geminiResponse holds before generateResponse returns
NoGeminiResponse == [message |-> EmptyText, needsTools |-> FALSE, toolQueries |-> << >>]

\* GeminiService.isRestaurantQuery and handleNonRestaurantQuery: private
\* helpers that no code of the repository calls
restaurantKeywords ==
    { "restaurant", "food", "eat", "dining", "menu", "cuisine", "dish", "meal",
      "breakfast", "lunch", "dinner", "cafe", "bar", "pizza", "sushi", "burger",
      "order", "delivery", "takeout", "reservation", "chef", "cooking", "all" }

\* the keywords a text of the model includes (query.toLowerCase().includes)
Included(query) ==
    IF query = "best pizza" THEN { "pizza" }
    ELSE IF query = "fix my car" THEN { }
    ELSE IF query = "try Lucali" THEN { }
    ELSE { }

isRestaurantQuery(query) == \E keyword \in restaurantKeywords : keyword \in Included(query)

handleNonRestaurantQuery ==
    Text("I am specialized in restaurant recommendations and food-related assistance. Please ask me about restaurants, cuisines, dishes, or dining options.")

-----------------------------------------------------------------------------
(* Tool calls and the search collaborators *)

\* name and func.arguments of a tool call; the arguments are a JSON object,
\* the JSON text null, or text JSON.parse rejects
ToolCallKinds == { [name |-> "search_reddit", args |-> "ok"],
                   [name |-> "search_web",    args |-> "ok"],
                   [name |-> "get_weather",   args |-> "ok"],
                   [name |-> "search_web",    args |-> "null"],
                   [name |-> "search_reddit", args |-> "bad json"] }

\* tool_calls of a completion: ids are unique within it
ToolCallLists ==
    { [n \in 1..Len(ks) |-> [id |-> n, name |-> ks[n].name, args |-> ks[n].args]] :
        ks \in SeqsUpTo(ToolCallKinds, MaxTools) }

\* a tool query of the Gemini text protocol has no identifier
NoId == 0

\* lines 195-198: a Gemini tool query becomes a call with parsed arguments
GeminiToolCalls(toolQueries) ==
    [n \in 1..Len(toolQueries) |-> [id |-> NoId, name |-> toolQueries[n].type, args |-> "ok"]]

\* lines 196-198: the arguments object built for a Gemini tool query
GeminiArgs(toolQuery) ==
    IF toolQuery.type = "search_reddit"
    THEN [query |-> toolQuery.query]
    ELSE [query |-> toolQuery.query, focus |-> "general"]

\* args.field: undefined when the object has no such property
Property(args, field) == IF field \in DOMAIN args THEN args[field] ELSE NoValue

\* executeToolCall, lines 76-83: the call made to the search collaborator
Invocation(toolName, args) ==
    IF toolName = "search_reddit"
    THEN [fn |-> "searchReddit", query |-> Property(args, "query"),
          subreddits |-> Property(args, "subreddits")]
    ELSE [fn |-> "searchWeb", query |-> Property(args, "query"),
          focus |-> Property(args, "focus")]

\* what a search collaborator answers: sources of the result, or an exception
\* (a post URL is never empty; a web result's url is whatever the API sent)
RedditSourceLists == { << "u2", "u1" >> }
WebSourceLists    == { << "", "u1" >> }

SourceListsOf(name) == IF name = "search_reddit" THEN RedditSourceLists ELSE WebSourceLists

Outcomes(name) == { [kind |-> "return", sources |-> ss] : ss \in SourceListsOf(name) }
                  \cup { [kind |-> "throw", sources |-> << >>] }

NoOutcome == [kind |-> "none", sources |-> << >>]

\* payloads of a tool result
OkPayload       == [error |-> FALSE, fallback |-> FALSE]
ErrorPayload    == [error |-> TRUE,  fallback |-> TRUE]
ErrorOnly       == [error |-> TRUE,  fallback |-> FALSE]

executeToolCallRethrow(toolName, args, outcome) ==
    IF toolName \in { "search_reddit", "search_web" }
    THEN IF args = "null" \/ outcome.kind # "return"
         THEN [thrown |-> FALSE, result |-> ErrorPayload, sources |-> << >>]
         ELSE [thrown |-> FALSE, result |-> OkPayload, sources |-> outcome.sources]
    ELSE [thrown |-> TRUE, result |-> ErrorPayload, sources |-> << >>]

executeToolCallNoCatch(toolName, args, outcome) ==
    IF toolName \in { "search_reddit", "search_web" }
    THEN IF args = "null" \/ outcome.kind # "return"
         THEN [thrown |-> TRUE, result |-> ErrorPayload, sources |-> << >>]
         ELSE [thrown |-> FALSE, result |-> OkPayload, sources |-> outcome.sources]
    ELSE [thrown |-> FALSE, result |-> ErrorPayload, sources |-> << >>]

\* executeToolCall: the switch runs inside try; the catch returns the error
\* shape.  args.query on null and the default case throw inside the try.
executeToolCall(toolName, args, outcome) ==
    IF toolName \in { "search_reddit", "search_web" }
    THEN IF args = "null" \/ outcome.kind # "return"
         THEN [thrown |-> FALSE, result |-> ErrorPayload, sources |-> << >>]
         ELSE [thrown |-> FALSE, result |-> OkPayload, sources |-> outcome.sources]
    ELSE [thrown |-> FALSE, result |-> ErrorPayload, sources |-> << >>]

\* route.ts 300-358: the inline switch of the single-provider handler.
\* outcome.kind "timeout" is the timer winning Promise.race.
Configured(toolName, ks) ==
    IF toolName = "search_reddit" THEN "REDDIT_CLIENT" \in ks
    ELSE "BRAVE_SEARCH_API_KEY" \in ks

singleToolExec(ks, call, outcome) ==
    IF call.args = "bad json"
    THEN [thrown |-> FALSE, result |-> ErrorPayload, sources |-> << >>]
    ELSE IF call.name \in { "search_reddit", "search_web" }
    THEN IF ~Configured(call.name, ks)
         THEN [thrown |-> FALSE, result |-> ErrorPayload, sources |-> << >>]
         ELSE IF call.args = "null" \/ outcome.kind # "return"
         THEN [thrown |-> FALSE, result |-> ErrorPayload, sources |-> << >>]
         ELSE [thrown |-> FALSE, result |-> OkPayload, sources |-> outcome.sources]
    ELSE [thrown |-> FALSE, result |-> ErrorOnly, sources |-> << >>]

\* does executing the call await a search collaborator?
AwaitsCollaborator(h, ks, call) ==
    /\ call.name \in { "search_reddit", "search_web" }
    /\ call.args = "ok"
    /\ h = "single" => Configured(call.name, ks)

-----------------------------------------------------------------------------
(* Source clean-up *)

\* sources.filter((source, index, array) => array.indexOf(source) === index)
RECURSIVE FilterFirstIndexFrom(_, _)
FilterFirstIndexFrom(s, n) ==
    IF n > Len(s) THEN << >>
    ELSE (IF IndexOf(s, s[n]) = n THEN << s[n] >> ELSE << >>) \o FilterFirstIndexFrom(s, n + 1)

FilterFirstIndex(s) == FilterFirstIndexFrom(s, 1)

\* sources.filter(source => source && source.length > 0)
FilterTruthy(s) == SelectSeq(s, LAMBDA x : x # "")

\* Array.from(new Set(array)): insertion order, a value already in is skipped
RECURSIVE SetFrom(_, _)
SetFrom(s, acc) ==
    IF s = << >> THEN acc
    ELSE SetFrom(Tail(s), IF Head(s) \in Range(acc) THEN acc ELSE Append(acc, Head(s)))

ArrayFromSet(s) == SetFrom(s, << >>)

CleanSourcesNoDedup(h, s) == IF h = "multi" THEN s ELSE FilterTruthy(s)

CleanSources(h, s) ==
    IF h = "multi" THEN FilterFirstIndex(s) ELSE ArrayFromSet(FilterTruthy(s))

-----------------------------------------------------------------------------
(* Responses *)

NoResponse == [status |-> 0, message |-> EmptyText, sources |-> << >>,
               provider |-> NoValue, error |-> NoValue, timestamp |-> NoValue]

\* NextResponse.json({ error }, { status }) of the multi-provider handler
ErrorResponse(status, label) ==
    [status |-> status, message |-> EmptyText, sources |-> << >>,
     provider |-> NoValue, error |-> label, timestamp |-> NoValue]

\* the ErrorResponse of route.ts: error, details and the time of the answer
SingleErrorResponse(status, label, t) ==
    [status |-> status, message |-> EmptyText, sources |-> << >>,
     provider |-> NoValue, error |-> label, timestamp |-> t]

\* readings of the clock
Times == { "t1", "t2" }

\* thrown errors: the set of patterns the error message contains
Errors == { {}, { "rate limit" }, { "429" }, { "insufficient_quota" }, { "invalid_api_key" },
            { "timeout" } }
OtherError == {}

\* the outer catch of the multi-provider handler
Classify(err) ==
    IF "rate limit" \in err \/ "429" \in err
    THEN ErrorResponse(429, "Rate limit exceeded")
    ELSE IF "insufficient_quota" \in err \/ "402" \in err
    THEN ErrorResponse(402, "API quota exceeded")
    ELSE IF "invalid_api_key" \in err \/ "401" \in err
    THEN ErrorResponse(401, "Invalid API key")
    ELSE IF "timeout" \in err
    THEN ErrorResponse(408, "Request timeout")
    ELSE ErrorResponse(500, "An internal server error occurred")

\* route.ts 241-273 and the outer catch 409-424
SingleClassify(err, t) ==
    IF "rate limit" \in err THEN SingleErrorResponse(429, "Too many requests", t)
    ELSE IF "insufficient_quota" \in err
    THEN SingleErrorResponse(503, "Service temporarily unavailable", t)
    ELSE IF "invalid_api_key" \in err THEN SingleErrorResponse(401, "Authentication failed", t)
    ELSE SingleErrorResponse(500, "Internal server error", t)

NoProvidersResponse == ErrorResponse(500, "No AI providers are configured")
EnvResponse(t)      == SingleErrorResponse(500, "Server configuration error", t)

\* what the handler's error path caught
NothingCaught == [raised |-> FALSE, err |-> {}]
Caught(err)   == [raised |-> TRUE, err |-> err]

-----------------------------------------------------------------------------
(* The handler between two awaits.  St is the handler's local state, Cx    *)
(* what it reads; each operator below runs the code from one await up to   *)
(* the next one (or to the response) and returns the new local state.      *)

\* the entry of the attempt in progress
Started(p) == [p |-> p, outcome |-> "running", err |-> { }]
Ended(log, how) == [log EXCEPT ![Len(log)].outcome = how]
\* the turn ended with err thrown (recorded when the log is switched on)
Threw(log, how, err, on) ==
    [log EXCEPT ![Len(log)].outcome = how, ![Len(log)].err = IF on THEN err ELSE { }]

St == [pc |-> pc, i |-> i, toolCalls |-> toolCalls, k |-> k, timerFired |-> timerFired,
       toolResults |-> toolResults, sources |-> sources, finalResponse |-> finalResponse,
       usedProvider |-> usedProvider, response |-> response, sentFirst |-> sentFirst,
       sentFinal |-> sentFinal, trace |-> trace, caught |-> caught, attempts |-> attempts,
       nGen |-> nGen, nTools |-> nTools, produced |-> produced]

Cx == [h |-> handler, ks |-> keys, av |-> avail, sel |-> selected, msgs |-> messages,
       now |-> now, log |-> errorLog]

Apply(st) ==
    /\ pc' = st.pc
    /\ i' = st.i
    /\ toolCalls' = st.toolCalls
    /\ k' = st.k
    /\ timerFired' = st.timerFired
    /\ toolResults' = st.toolResults
    /\ sources' = st.sources
    /\ finalResponse' = st.finalResponse
    /\ usedProvider' = st.usedProvider
    /\ response' = st.response
    /\ sentFirst' = st.sentFirst
    /\ sentFinal' = st.sentFinal
    /\ trace' = st.trace
    /\ caught' = st.caught
    /\ attempts' = st.attempts
    /\ nGen' = st.nGen
    /\ nTools' = st.nTools
    /\ produced' = st.produced

ClientOf(p, ks) == IF p = "gemini" THEN geminiClient(ks) ELSE openaiClient(ks)

\* lines 281-290 (multi), route.ts 389-407 (single)
Respond(cx, st) ==
    LET clean == CleanSources(cx.h, st.sources) IN
    [st EXCEPT !.pc = "done",
               !.sources = clean,
               !.response = [status |-> 200, message |-> st.finalResponse,
                             sources |-> clean,
                             provider |-> IF cx.h = "multi" THEN st.usedProvider ELSE NoValue,
                             error |-> NoValue,
                             timestamp |-> IF cx.h = "multi" THEN NoValue ELSE cx.now]]

\* msg => ({ role: msg.role, content: msg.content }) for OpenAI;
\* `${msg.role}: ${msg.content}` in the prompts of GeminiService
SentMessage(m) == [role |-> m.role, content |-> m.content, id |-> NoId]

\* the conversation of the first generation call (lines 190, 220-223;
\* route.ts 230-233).  GeminiService wraps it in its prompt text.
FirstConversation(msgs) == [n \in 1..Len(msgs) |-> SentMessage(msgs[n])]

\* the assistant message that asked for the tools (line 239)
ResponseMessage == [role |-> "assistant", content |-> "tool_calls", id |-> NoId]

\* lines 249-253: { tool_call_id, role: 'tool', content: JSON.stringify(result) }
ToolMessage(r) ==
    [role |-> "tool", content |-> IF r.error THEN "error" ELSE "result", id |-> r.id]

\* formatToolResults of generateWithToolResults: JSON.stringify(result)
FormattedResult(r) ==
    [role |-> "search result", content |-> IF r.error THEN "error" ELSE "result", id |-> NoId]

FinalConversationNoHistory(p, msgs, results) ==
    IF p = "gemini"
    THEN [n \in 1..Len(results) |-> FormattedResult(results[n])]
    ELSE << ResponseMessage >> \o [n \in 1..Len(results) |-> ToolMessage(results[n])]

\* the conversation of the final generation call: toolMessages (lines
\* 237-254, route.ts 287-366); conversationText and toolResultsText of
\* generateWithToolResults
FinalConversation(p, msgs, results) ==
    IF p = "gemini"
    THEN FirstConversation(msgs) \o [n \in 1..Len(results) |-> FormattedResult(results[n])]
    ELSE FirstConversation(msgs) \o << ResponseMessage >>
             \o [n \in 1..Len(results) |-> ToolMessage(results[n])]

RECURSIVE Attempt(_, _), Fail(_, _, _, _)

\* lines 179-190 / 213-218: the head of one loop iteration, up to the await
\* of the provider's first generation call
Attempt(cx, st) ==
    LET p  == currentProvider(cx.sel, cx.av, st.i)
        s1 == [st EXCEPT !.attempts = Append(@, Started(p)),
                         !.toolCalls = << >>, !.toolResults = << >>, !.k = 0,
                         !.sentFirst = << >>, !.sentFinal = << >>, !.trace = << >>]
    IN  IF ~ClientOf(p, cx.ks) THEN Fail(cx, s1, OtherError, "client")
        ELSE [s1 EXCEPT !.nGen = @ + 1, !.pc = "gen1", !.trace = Append(@, "gen"),
                        !.sentFirst = FirstConversation(cx.msgs)]

FailWithFirstError(cx, st, err, cause) ==
    LET s1    == [st EXCEPT !.attempts = Threw(@, cause, err, cx.log)]
        first == s1.attempts[1].err
    IN  IF st.i = Len(cx.av) - 1
        THEN [s1 EXCEPT !.pc = "done", !.response = Classify(first), !.caught = Caught(first)]
        ELSE Attempt(cx, [s1 EXCEPT !.i = @ + 1])

FailRetryChain(cx, st, err, cause) ==
    LET s1 == [st EXCEPT !.attempts = Threw(@, cause, err, cx.log)]
    IN  IF st.i = Len(cx.av) - 1
        THEN IF Len(s1.attempts) >= 3 * Len(cx.av)
             THEN [s1 EXCEPT !.pc = "done", !.response = Classify(err), !.caught = Caught(err)]
             ELSE Attempt(cx, [s1 EXCEPT !.i = 0])
        ELSE Attempt(cx, [s1 EXCEPT !.i = @ + 1])

\* lines 270-278: the catch of the loop body; 292-330 when it rethrows
Fail(cx, st, err, cause) ==
    LET s1 == [st EXCEPT !.attempts = Threw(@, cause, err, cx.log)]
    IN  IF st.i = Len(cx.av) - 1
        THEN [s1 EXCEPT !.pc = "done", !.response = Classify(err), !.caught = Caught(err)]
        ELSE Attempt(cx, [s1 EXCEPT !.i = @ + 1])

TurnDoneNoBreak(cx, st, p) ==
    LET s1 == [st EXCEPT !.usedProvider = p, !.attempts = Ended(@, "done")]
    IN  IF s1.i + 1 < Len(cx.av) THEN Attempt(cx, [s1 EXCEPT !.i = @ + 1])
        ELSE Respond(cx, s1)

\* lines 210-211 / 266-267: usedProvider = ...; break; then the envelope
TurnDone(cx, st, p) ==
    Respond(cx, [st EXCEPT !.usedProvider = p, !.attempts = Ended(@, "done")])

\* An attached result also records what the executor was given and what
\* sources it returned (the code attaches the payload only).
Result(kk, call, r, outcome) ==
    [call |-> kk, id |-> call.id, error |-> r.result.error, fallback |-> r.result.fallback,
     given |-> outcome.kind, sources |-> r.sources]

AttachResultUnlessError(results, kk, call, r, outcome) ==
    IF r.result.error THEN results ELSE Append(results, Result(kk, call, r, outcome))

\* toolResults.push(result) / toolMessages.push({tool_call_id, role, content})
AttachResult(results, kk, call, r, outcome) ==
    Append(results, Result(kk, call, r, outcome))

RECURSIVE RunTools(_, _), Settle(_, _, _)

\* the tool loop from call st.k on, up to the next await: a collaborator
\* call, or the final generation call once every call has its result
RunTools(cx, st) ==
    IF st.k > Len(st.toolCalls)
    THEN [st EXCEPT !.pc = "gen2", !.nGen = @ + 1, !.trace = Append(@, "gen"),
                    !.sentFinal = FinalConversation(st.attempts[Len(st.attempts)].p,
                                                    cx.msgs, st.toolResults)]
    ELSE LET call == st.toolCalls[st.k] IN
         IF cx.h = "multi" /\ call.args = "bad json"
         THEN Fail(cx, st, OtherError, "parse")
         ELSE LET s1 == [st EXCEPT !.nTools = @ + 1] IN
              IF AwaitsCollaborator(cx.h, cx.ks, call)
              THEN [s1 EXCEPT !.pc = "tool", !.timerFired = FALSE]
              ELSE Settle(cx, s1, NoOutcome)

\* tool call st.k has its answer: attach the result, collect the sources
Settle(cx, st, outcome) ==
    LET call == st.toolCalls[st.k]
        r    == IF cx.h = "multi" THEN executeToolCall(call.name, call.args, outcome)
                ELSE singleToolExec(cx.ks, call, outcome)
    IN  IF r.thrown THEN Fail(cx, st, OtherError, "tool")
        ELSE RunTools(cx, [st EXCEPT
                 !.toolResults = AttachResult(@, st.k, call, r, outcome),
                 !.sources = @ \o r.sources,
                 !.produced = @ \o r.sources,
                 !.trace = Append(@, IF outcome.kind \in { "throw", "timeout" }
                                     THEN "tool failed" ELSE "tool"),
                 !.k = @ + 1,
                 !.timerFired = FALSE])

\* lines 190-211
GeminiFirst(cx, st, text) ==
    LET r == generateResponse(text) IN
    IF r.needsTools /\ Len(r.toolQueries) > 0
    THEN RunTools(cx, [st EXCEPT !.toolCalls = GeminiToolCalls(r.toolQueries), !.k = 1])
    ELSE TurnDone(cx, [st EXCEPT !.finalResponse = r.message], "gemini")

OpenAIFirstNoLengthCheck(cx, st, hasMessage, content, calls) ==
    IF ~hasMessage THEN Fail(cx, st, OtherError, "no message")
    ELSE RunTools(cx, [st EXCEPT !.finalResponse = OrElse(content, EmptyText),
                                 !.toolCalls = calls, !.k = 1])

\* lines 230-267; content is NoValue when choices[0].message is missing
OpenAIFirst(cx, st, hasMessage, content, calls) ==
    IF ~hasMessage THEN Fail(cx, st, OtherError, "no message")
    ELSE LET s1 == [st EXCEPT !.finalResponse = OrElse(content, EmptyText)] IN
         IF Len(calls) > 0 THEN RunTools(cx, [s1 EXCEPT !.toolCalls = calls, !.k = 1])
         ELSE TurnDone(cx, s1, "openai")

\* route.ts 275-290, 389-407
SingleFirst(cx, st, hasMessage, content, calls) ==
    IF ~hasMessage
    THEN [st EXCEPT !.pc = "done",
                    !.response = SingleErrorResponse(500, "Internal server error", cx.now),
                    !.caught = Caught(OtherError),
                    !.attempts = Threw(@, "no message", OtherError, cx.log)]
    ELSE LET s1 == [st EXCEPT !.finalResponse = OrElse(content, EmptyText)] IN
         IF Len(calls) > 0 THEN RunTools(cx, [s1 EXCEPT !.toolCalls = calls, !.k = 1])
         ELSE TurnDone(cx, s1, "openai")

-----------------------------------------------------------------------------
(* The Reddit access token cache (RedditService of lib/reddit.ts and        *)
(* RedditClient; both keep accessToken and tokenExpiry).  Time is counted   *)
(* in minutes.  A token is the number of the response that carried it.      *)

NoToken    == 0         \* private accessToken: string | null = null
EmptyToken == -1        \* response.data.access_token || ''

Buffer          == 1    \* 60000 ms
DefaultLifetime == 60   \* expires_in || 3600

RedditClasses == { "RedditService", "RedditClient" }

\* a cache that still serves its token at the instant of expiry
CacheValidAtExpiry(token, expiry, t) ==
    token # NoToken /\ token # EmptyToken /\ t <= expiry

\* a cache test against null alone: this.accessToken !== null && ...
CacheValidNotNull(token, expiry, t) ==
    token # NoToken /\ t < expiry

\* this.accessToken && Date.now() < this.tokenExpiry
CacheValid(token, expiry, t) ==
    token # NoToken /\ token # EmptyToken /\ t < expiry

\* this.accessToken = ...; this.tokenExpiry = Date.now() + lifetime - 60000
Store(cache, token, lifetime, t) ==
    [accessToken |-> token, tokenExpiry |-> t + lifetime - Buffer]

-----------------------------------------------------------------------------
(* Initial states: a request arrives at one of the two handlers *)

\* the components studied on their own are at rest while a request is served
ParserIdle ==
    /\ responseText = EmptyText
    /\ geminiResponse = NoGeminiResponse
    /\ searched = << >>

TokenCacheIdle ==
    /\ client = "RedditService"
    /\ accessToken = NoToken
    /\ tokenExpiry = 0
    /\ clock = 0
    /\ tokenCalls = << >>
    /\ refreshes = << >>

\* the page is not mounted
PageIdle ==
    /\ chat = << >>
    /\ input = ""
    /\ isLoading = FALSE
    /\ shown = [messages |-> << >>, input |-> "", isLoading |-> FALSE]
    /\ inFlight = 0
    /\ requests = << >>
    /\ ignored = { }
    /\ outcomes = << >>
    /\ cleared = FALSE

\* the provider registry as the module declares it
RegistryIdle ==
    /\ providers = AI_PROVIDERS
    /\ env = { }
    /\ available = NotListed

\* no tool call is being executed
SearchIdle ==
    /\ tool = NoValue
    /\ backend = NoValue
    /\ searchOutcome = NoOutcome
    /\ toolSources = << >>
    /\ reported = << >>

AsideIdle == ParserIdle /\ TokenCacheIdle /\ PageIdle /\ RegistryIdle /\ SearchIdle

MultiKeys  == SUBSET { "OPENAI_API_KEY", "GEMINI_API_KEY" }
SingleKeys == SUBSET { "OPENAI_API_KEY", "BRAVE_SEARCH_API_KEY", "REDDIT_CLIENT" }

Init ==
    /\ handler \in Handlers
    /\ keys \in (IF handler = "multi" THEN MultiKeys ELSE SingleKeys)
    /\ body \in Bodies
    /\ preferred \in (IF handler = "multi" THEN Preferred ELSE { NoValue })
    /\ now \in (IF handler = "multi" THEN { NoValue } ELSE Times)
    /\ pc = "start"
    /\ avail = << >>
    /\ selected = NoValue
    /\ i = 0
    /\ messages = << >>
    /\ toolCalls = << >>
    /\ k = 0
    /\ timerFired = FALSE
    /\ toolResults = << >>
    /\ sources = << >>
    /\ finalResponse = EmptyText
    /\ usedProvider = NoValue
    /\ response = NoResponse
    /\ sentFirst = << >>
    /\ sentFinal = << >>
    /\ trace = << >>
    /\ caught = NothingCaught
    /\ attempts = << >>
    /\ nGen = 0
    /\ nTools = 0
    /\ produced = << >>
    /\ errorLog = FALSE
    /\ AsideIdle

Inputs == << handler, keys, body, preferred, now, errorLog >>

Reply(r) == [St EXCEPT !.pc = "done", !.response = r]

-----------------------------------------------------------------------------
(* Actions *)

\* validateEnvironment (route.ts 33-47)
validateEnvironment(ks) == "OPENAI_API_KEY" \in ks

\* route.ts 190-208
ValidMessage(m) ==
    /\ m.role # NoValue /\ m.role # ""
    /\ m.content # NoValue /\ m.content # ""
    /\ m.role \in { "user", "assistant", "system" }

\* route.ts 190-208: the response for the first message that fails a check
FirstInvalid(b, t) ==
    LET n == CHOOSE m \in 1..Len(b) : ~ValidMessage(b[m]) /\ \A j \in 1..(m-1) : ValidMessage(b[j])
        m == b[n]
    IN  IF m.role = NoValue \/ m.role = "" \/ m.content = NoValue \/ m.content = ""
        THEN SingleErrorResponse(400, "Invalid message format", t)
        ELSE SingleErrorResponse(400, "Invalid message role", t)

\* the multi-provider POST, lines 110-190: from the request to the await of
\* the first generation call
POST ==
    /\ pc = "start"
    /\ handler = "multi"
    /\ UNCHANGED << Inputs, Aside >>
    /\ IF body = BadJson
       THEN /\ Apply(Reply(ErrorResponse(400, "Invalid request format")))
            /\ UNCHANGED << avail, selected, messages >>
       ELSE IF Len(body) = 0
       THEN /\ Apply(Reply(ErrorResponse(400, "Messages array is required")))
            /\ UNCHANGED << avail, selected, messages >>
       ELSE LET av == Names(getAvailableProviders(keys)) IN
            /\ avail' = av
            /\ IF Len(av) = 0
               THEN /\ Apply(Reply(NoProvidersResponse))
                    /\ UNCHANGED << selected, messages >>
               ELSE LET sel == SelectProvider(av, preferred) IN
                    /\ selected' = sel
                    /\ messages' = << SystemMessage >> \o body
                    /\ Apply(Attempt([h |-> handler, ks |-> keys, av |-> av, sel |-> sel,
                                      msgs |-> << SystemMessage >> \o body, now |-> now,
                                      log |-> errorLog],
                                     [St EXCEPT !.usedProvider = sel]))

\* the single-provider POST, route.ts 147-238.  Without OPENAI_API_KEY the
\* module throws while loading (route.ts 14-30) and the environment check
\* (153-163) answers 500: either way the request ends with 500 here.
SinglePOST ==
    /\ pc = "start"
    /\ handler = "single"
    /\ UNCHANGED << Inputs, Aside >>
    /\ IF ~validateEnvironment(keys)
       THEN /\ Apply(Reply(EnvResponse(now)))
            /\ UNCHANGED << avail, selected, messages >>
       ELSE IF body = BadJson
       THEN /\ Apply(Reply(SingleErrorResponse(400, "Invalid request format", now)))
            /\ UNCHANGED << avail, selected, messages >>
       ELSE IF Len(body) = 0
       THEN /\ Apply(Reply(SingleErrorResponse(400, "Invalid request", now)))
            /\ UNCHANGED << avail, selected, messages >>
       ELSE IF \E n \in 1..Len(body) : ~ValidMessage(body[n])
       THEN /\ Apply(Reply(FirstInvalid(body, now)))
            /\ UNCHANGED << avail, selected, messages >>
       ELSE /\ avail' = << "openai" >>
            /\ selected' = "openai"
            /\ messages' = << SystemMessage >> \o body
            /\ Apply([St EXCEPT !.pc = "gen1", !.usedProvider = "openai",
                                !.attempts = << Started("openai") >>, !.nGen = 1,
                                !.trace = << "gen" >>,
                                !.sentFirst = FirstConversation(<< SystemMessage >> \o body)])

Frame == UNCHANGED << Inputs, avail, selected, messages, Aside >>

Current == currentProvider(selected, avail, i)

\* gemini.generateResponse(messages) settles (line 190)
GeminiGenerateResponse ==
    /\ pc = "gen1" /\ handler = "multi" /\ Current = "gemini"
    /\ Frame
    /\ \/ \E text \in GeminiTexts : Apply(GeminiFirst(Cx, St, text))
       \/ \E err \in Errors : Apply(Fail(Cx, St, err, pc))

\* openai.chat.completions.create settles (line 218)
OpenAICreate ==
    /\ pc = "gen1" /\ handler = "multi" /\ Current = "openai"
    /\ Frame
    /\ \/ \E content \in Contents, calls \in ToolCallLists :
             Apply(OpenAIFirst(Cx, St, TRUE, content, calls))
       \/ Apply(OpenAIFirst(Cx, St, FALSE, NoValue, << >>))
       \/ \E err \in Errors : Apply(Fail(Cx, St, err, pc))

\* tools are offered only when a search key is present (route.ts 234)
SingleToolLists(ks) ==
    IF "BRAVE_SEARCH_API_KEY" \in ks \/ "REDDIT_CLIENT" \in ks THEN ToolCallLists ELSE { << >> }

\* openai.chat.completions.create settles (route.ts 228-290)
SingleOpenAICreate ==
    /\ pc = "gen1" /\ handler = "single"
    /\ Frame
    /\ \/ \E content \in Contents, calls \in SingleToolLists(keys) :
             Apply(SingleFirst(Cx, St, TRUE, content, calls))
       \/ Apply(SingleFirst(Cx, St, FALSE, NoValue, << >>))
       \/ \E err \in Errors :
             Apply([St EXCEPT !.pc = "done", !.response = SingleClassify(err, now),
                              !.caught = Caught(err),
                              !.attempts = Threw(@, "gen1", err, errorLog)])

\* the search collaborator of the tool call in flight returns or throws
ToolSettles ==
    /\ pc = "tool"
    /\ Frame
    /\ \E o \in Outcomes(toolCalls[k].name) : Apply(Settle(Cx, St, o))

\* the 15 s timer of the tool call in flight fires.  executeToolCall aborts
\* a controller whose signal nothing listens to; route.ts rejects the race.
ToolTimerFires ==
    /\ pc = "tool"
    /\ ~timerFired
    /\ Frame
    /\ IF handler = "multi"
       THEN Apply([St EXCEPT !.timerFired = TRUE])
       ELSE Apply(Settle(Cx, [St EXCEPT !.timerFired = TRUE],
                         [kind |-> "timeout", sources |-> << >>]))

FinalTexts == { EmptyText, Text("prose") }

\* gemini.generateWithToolResults settles (line 205)
GeminiGenerateWithToolResults ==
    /\ pc = "gen2" /\ handler = "multi" /\ Current = "gemini"
    /\ Frame
    /\ \/ \E text \in FinalTexts : Apply(TurnDone(Cx, [St EXCEPT !.finalResponse = text], "gemini"))
       \/ \E err \in Errors : Apply(Fail(Cx, St, err, pc))

\* the final completion settles (lines 256-267)
OpenAIFinalCompletion ==
    /\ pc = "gen2" /\ handler = "multi" /\ Current = "openai"
    /\ Frame
    /\ \/ \E content \in Contents :
             Apply(TurnDone(Cx, [St EXCEPT !.finalResponse = OrElse(content, Apology)], "openai"))
       \/ \E err \in Errors : Apply(Fail(Cx, St, err, pc))

\* the final completion settles (route.ts 368-387)
SingleFinalCompletion ==
    /\ pc = "gen2" /\ handler = "single"
    /\ Frame
    /\ \/ \E content \in Contents :
             Apply(TurnDone(Cx, [St EXCEPT !.finalResponse = OrElse(content, SingleApology)], "openai"))
       \/ Apply(TurnDone(Cx, [St EXCEPT !.finalResponse = SingleTrouble], "openai"))

Next ==
    \/ POST
    \/ SinglePOST
    \/ GeminiGenerateResponse
    \/ OpenAICreate
    \/ SingleOpenAICreate
    \/ ToolSettles
    \/ ToolTimerFires
    \/ GeminiGenerateWithToolResults
    \/ OpenAIFinalCompletion
    \/ SingleFinalCompletion

Spec == Init /\ [][Next]_vars

-----------------------------------------------------------------------------
(* Properties of the failover chain *)

AttemptNames == [n \in 1..Len(attempts) |-> attempts[n].p]

IsPrefix(s, t) == Len(s) <= Len(t) /\ \A n \in 1..Len(s) : s[n] = t[n]

Without(s, x) == SelectSeq(s, LAMBDA y : y # x)

\* the order the specification gives: the preferred provider, when it is
\* available, moved to the front of the priority order
ExpectedOrder ==
    IF preferred # NoValue /\ preferred \in Range(avail)
    THEN << preferred >> \o Without(avail, preferred)
    ELSE avail

Failed(n) == attempts[n].outcome \notin { "running", "done" }

\* C1: in the multi-provider handler no provider is attempted twice within a
\* request; when the first attempted provider throws on its first generation
\* call and another provider is available, that other provider is attempted
\* next, and when it succeeds the envelope's provider is its name.
C1_FailoverNoRetry ==
    handler = "multi" =>
        /\ \A m, n \in 1..Len(attempts) : m # n => attempts[m].p # attempts[n].p
        /\ (Len(attempts) >= 2 /\ attempts[1].outcome = "gen1")
              => /\ attempts[2].p # attempts[1].p
                 /\ attempts[2].p \in Range(avail)
                 /\ attempts[2].outcome = "done"
                       => response.status = 200 /\ response.provider = attempts[2].p

\* C2: the providers are attempted in the expected order: the preferred one
\* first when it is available, then the others by ascending priority;
\* otherwise the available providers by ascending priority.
C2_AttemptOrder ==
    handler = "multi" => IsPrefix(AttemptNames, ExpectedOrder)

\* C3: once validation has passed and a provider is available, an HTTP error
\* is returned only when every available provider was attempted and failed.
C3_ErrorOnlyWhenChainExhausted ==
    (pc = "done" /\ Len(avail) > 0 /\ response.status # 200)
        => \A p \in Range(avail) : \E n \in 1..Len(attempts) : attempts[n].p = p /\ Failed(n)

\* C4: the handler stops at the first provider whose turn completes: no
\* provider is attempted after a completed turn, the request is answered at
\* once, and the attempts never outnumber the available providers.
C4_StopsAtFirstSuccess ==
    /\ Len(attempts) <= Len(avail)
    /\ \A n \in 1..Len(attempts) :
          attempts[n].outcome = "done"
             => /\ n = Len(attempts)
                /\ pc = "done"
                /\ response.status = 200
                /\ handler = "multi" => response.provider = attempts[n].p

\* the first provider of two completes its turn; the second is never tried
C4_Witness ==
    /\ handler = "multi"
    /\ Len(avail) = 2
    /\ Len(attempts) = 1
    /\ attempts[1].outcome = "done"
    /\ nGen = 2

\* the chain with the default order: for comparison with C1-C3
DefaultOrderFailover ==
    (handler = "multi" /\ (preferred = NoValue \/ preferred \notin Range(avail) \/ preferred = avail[1]))
        => C1_FailoverNoRetry /\ C2_AttemptOrder /\ C3_ErrorOnlyWhenChainExhausted

-----------------------------------------------------------------------------
(* Properties of the configuration check *)

\* every configured provider's credential is absent
NoCredentials ==
    IF handler = "multi" THEN keys \cap { "OPENAI_API_KEY", "GEMINI_API_KEY" } = {}
    ELSE "OPENAI_API_KEY" \notin keys

ConfigurationError == response \in { NoProvidersResponse, EnvResponse(now) }

\* the multi-provider handler validates the body before it looks for providers
RejectedFirst == handler = "multi" /\ (body = BadJson \/ Len(body) = 0)

-----------------------------------------------------------------------------
(* Properties of the sources of the envelope *)

NoDuplicates(s) == \A m, n \in 1..Len(s) : m # n => s[m] # s[n]

FirstSeen(s, x) == CHOOSE n \in 1..Len(s) : s[n] = x /\ \A m \in 1..Len(s) : s[m] = x => n <= m

\* out holds every entry of in once, in the order of first appearance
IsFirstOccurrences(out, in) ==
    /\ NoDuplicates(out)
    /\ Range(out) = Range(in)
    /\ \A m, n \in 1..Len(out) : m < n => FirstSeen(in, out[m]) < FirstSeen(in, out[n])

NonEmpty(s) == SelectSeq(s, LAMBDA x : x # "")

Answered == pc = "done" /\ response.status = 200

\* C6 as stated: the envelope's sources are the sources of every tool result
\* of the request, in encounter order, each kept once at its first place.
C6_SourcesAreFirstOccurrences ==
    Answered => IsFirstOccurrences(response.sources, produced)

\* C6 amended: the same of the sources the handler keeps: the single-provider
\* handler drops empty-string sources before it removes the duplicates.
C6_KeptSourcesAreFirstOccurrences ==
    Answered => IsFirstOccurrences(response.sources,
                                   IF handler = "single" THEN NonEmpty(produced) ELSE produced)

\* two tool results share a source and one of them reports an empty one
C6_Witness ==
    /\ Answered
    /\ handler = "single"
    /\ "" \in Range(produced)
    /\ ~NoDuplicates(NonEmpty(produced))
    /\ Len(response.sources) = 2

-----------------------------------------------------------------------------
(* Properties of the tool loop *)

KnownTool(name) == name \in { "search_reddit", "search_web" }

\* C7: the final generation call is issued only when every tool call of the
\* turn has exactly one result attached.
C7_AllResultsBeforeFinal ==
    pc = "gen2" => /\ Len(toolCalls) > 0
                   /\ Len(toolResults) = Len(toolCalls)
                   /\ \A n \in 1..Len(toolResults) : toolResults[n].call = n

\* Gemini asked for two searches, the first of which failed
C7_Witness ==
    /\ pc = "gen2"
    /\ handler = "multi"
    /\ Current = "gemini"
    /\ Len(toolCalls) = 2
    /\ Len(toolResults) = 2
    /\ toolResults[1].error
    /\ ~toolResults[2].error

SingleInlineToolErrors ==
    handler = "single" =>
        \A n \in 1..Len(toolResults) :
            LET r == toolResults[n]
                c == toolCalls[r.call]
            IN  /\ (~KnownTool(c.name) \/ r.given \in { "throw", "timeout" })
                      => r.error /\ r.sources = << >>
                /\ r.error => (r.fallback <=> (KnownTool(c.name) \/ c.args = "bad json"))

\* C9: when the 15 s budget of a tool call elapses before its collaborator
\* has answered, the call gets an error-shaped result there and then (the
\* handler does not go on waiting), and the loop moves on.
C9_TimeoutConverted ==
    [][(pc = "tool" /\ (timerFired \/ timerFired'))
          => /\ Len(toolResults') >= k
             /\ toolResults'[k].call = k
             /\ toolResults'[k].error
             /\ ~timerFired']_vars

\* C10: every 200 response carries a non-empty message.
C10_MessageNonEmpty ==
    response.status = 200 => response.message # EmptyText

-----------------------------------------------------------------------------
(* Properties of the provider turn *)

\* C11: a failure of the final generation call of a turn does not end the
\* turn as a provider failure and does not reach the HTTP response: the turn
\* completes with an apology text.
C11_FinalFailureGivesApology ==
    /\ \A n \in 1..Len(attempts) : attempts[n].outcome # "gen2"
    /\ (pc = "done" /\ Len(trace) >= 2 /\ trace[Len(trace)] = "gen")
           => response.status = 200

\* the single-provider handler does recover the failure of its final call
SingleFinalFailureRecovered ==
    handler = "single" =>
        /\ \A n \in 1..Len(attempts) : attempts[n].outcome # "gen2"
        /\ (pc = "done" /\ Len(trace) >= 2) => response.status = 200 /\ response.message # EmptyText

ToolEvents == { "tool", "tool failed" }

Gens(tr) == Len(SelectSeq(tr, LAMBDA e : e = "gen"))

Tools(tr) == Len(SelectSeq(tr, LAMBDA e : e \in ToolEvents))

TurnCompleted == Len(attempts) > 0 /\ attempts[Len(attempts)].outcome = "done"

-----------------------------------------------------------------------------
(* Properties of request validation *)

MalformedItem(m) ==
    \/ m.role = NoValue
    \/ m.content = NoValue
    \/ m.role \notin { "user", "assistant", "system" }

InvalidMessages ==
    body # BadJson /\ (Len(body) = 0 \/ \E n \in 1..Len(body) : MalformedItem(body[n]))

\* C13: a request whose messages list is empty or holds an item without role
\* or content or with an unknown role is answered 400, and no generation
\* call and no tool call is made for it (stated for a handler that has its
\* credentials: without them the configuration error of C5 is the answer).
C13_InvalidMessagesRejected ==
    (InvalidMessages /\ ~NoCredentials)
        => /\ nGen = 0 /\ nTools = 0
           /\ pc = "done" => response.status = 400

\* the single-provider handler, once configured, does reject them
SingleInvalidMessagesRejected ==
    (handler = "single" /\ "OPENAI_API_KEY" \in keys /\ InvalidMessages)
        => /\ nGen = 0 /\ nTools = 0
           /\ pc = "done" => response.status = 400

MalformedPayload == body = BadJson \/ InvalidMessages

\* C20: a malformed payload gets the identical 400 response whenever it is
\* submitted: the answer is decided by the payload alone, so no provider is
\* consulted for it and nothing in it varies with the time of the
\* submission (stated for a handler that has its credentials).
C20_SameRejectionEveryTime ==
    (MalformedPayload /\ ~NoCredentials)
        => /\ nGen = 0
           /\ pc = "done" => /\ response.status = 400
                              /\ response.timestamp \notin Times

\* the multi-provider handler answers the payloads it does reject the same
\* way every time
MultiRejectionFixed ==
    (handler = "multi" /\ response.status = 400)
        => /\ nGen = 0
           /\ response = ErrorResponse(400, IF body = BadJson THEN "Invalid request format"
                                             ELSE "Messages array is required")

-----------------------------------------------------------------------------
(* Properties of the error responses *)

\* the status the specification gives to a failure of each nature
StatusFor(err) ==
    IF err \cap { "rate limit", "429" } # {} THEN 429
    ELSE IF err \cap { "insufficient_quota", "402" } # {} THEN 402
    ELSE IF err \cap { "invalid_api_key", "401" } # {} THEN 401
    ELSE IF "timeout" \in err THEN 408
    ELSE 500

\* C14: when the failure of the last provider reaches the error response, its
\* status follows the nature of the failure: 429 for a rate limit, 402 for
\* an exhausted quota, 401 for failed authentication, 408 for a timeout and
\* 500 for anything else.
C14_StatusByNature ==
    (pc = "done" /\ caught.raised) => response.status = StatusFor(caught.err)

\* the multi-provider handler classifies that way
MultiStatusByNature ==
    (handler = "multi" /\ pc = "done" /\ caught.raised)
        => response.status = StatusFor(caught.err)

\* a search collaborator threw, or was cut off by the timer, in the turn in
\* progress (the multi-provider handler cuts nothing off: it goes on waiting
\* for a late collaborator, and the turn goes on when that one settles)
ToolFailedInTurn == "tool failed" \in Range(trace)

LastAttempt == attempts[Len(attempts)]

-----------------------------------------------------------------------------
(* Properties of the off-topic refusal *)

\* a well-formed request none of whose messages has food or restaurant
\* vocabulary
OffTopicRequest ==
    /\ body # BadJson
    /\ Len(body) > 0
    /\ \A n \in 1..Len(body) : ~MalformedItem(body[n]) /\ ~isRestaurantQuery(body[n].content)

\* C16: an off-topic request is answered with the fixed refusal sentence and
\* no tool call is executed for it.
C16_OffTopicRefused ==
    OffTopicRequest => /\ nTools = 0
                       /\ response.status = 200 => response.message = handleNonRestaurantQuery

-----------------------------------------------------------------------------
(* Properties of provider availability *)

KeyOf(name) == IF name = "openai" THEN "OPENAI_API_KEY" ELSE "GEMINI_API_KEY"

PriorityOf(name) ==
    LET n == CHOOSE m \in 1..Len(AI_PROVIDERS) : AI_PROVIDERS[m].name = name
    IN  AI_PROVIDERS[n].priority

\* the handler has asked for the available providers
ProvidersEvaluated == handler = "multi" /\ pc # "start" /\ body # BadJson /\ Len(body) > 0

\* C17: the available providers are exactly the configured providers whose
\* credential is present, in ascending priority, and a provider without its
\* credential is never attempted.
C17_AvailableProviders ==
    handler = "multi" =>
        /\ ProvidersEvaluated =>
              /\ Range(avail) = { AI_PROVIDERS[n].name : n \in { m \in 1..Len(AI_PROVIDERS) :
                                                                  KeyOf(AI_PROVIDERS[m].name) \in keys } }
              /\ \A m, n \in 1..Len(avail) :
                    m < n => PriorityOf(avail[m]) < PriorityOf(avail[n])
        /\ \A n \in 1..Len(attempts) : KeyOf(attempts[n].p) \in keys

\* only OpenAI has its key: Gemini, first by priority, is left out
C17_Witness ==
    /\ handler = "multi"
    /\ keys = { "OPENAI_API_KEY" }
    /\ avail = << "openai" >>
    /\ Len(attempts) = 1
    /\ attempts[1].p = "openai"
    /\ pc = "done"

\* both keys: priority order
C17_BothWitness == handler = "multi" /\ avail = << "gemini", "openai" >> /\ pc = "gen1"

-----------------------------------------------------------------------------
(* Properties of the conversation *)

\* conv is the system message followed by the caller's messages, in order
IsSystemThenCaller(conv) ==
    /\ Len(conv) = Len(body) + 1
    /\ conv[1].role = "system" /\ conv[1].content = SystemMessage.content
    /\ \A n \in 1..Len(body) :
          conv[n + 1].role = body[n].role /\ conv[n + 1].content = body[n].content

\* C18: the conversation only grows.  What the first generation call is sent
\* is the system message followed by the caller's messages as the caller
\* gave them, and what the final generation call is sent starts with exactly
\* that conversation.
C18_ConversationAppendOnly ==
    /\ messages # << >> => IsSystemThenCaller(messages)
    /\ pc \in { "gen1", "tool", "gen2" } => sentFirst # << >>
    /\ pc = "gen2" => sentFinal # << >>
    /\ sentFirst # << >> => IsSystemThenCaller(sentFirst)
    /\ sentFinal # << >> => /\ sentFirst # << >>
                            /\ IsPrefix(sentFirst, sentFinal)
                            /\ Len(sentFinal) > Len(sentFirst)

\* a two-message history, one tool call, the final call about to be answered
C18_Witness ==
    /\ pc = "gen2"
    /\ Len(body) = 2
    /\ Len(sentFirst) = 3
    /\ Len(sentFinal) = 5
    /\ sentFinal[5].role = "tool"

\* the tool results within the conversation of the final generation call
FedBack == SelectSeq(sentFinal, LAMBDA e : e.role \in { "tool", "search result" })

ResultsIdentified ==
    /\ Len(FedBack) = Len(toolCalls)
    /\ \A n \in 1..Len(FedBack) : FedBack[n].id # NoId /\ FedBack[n].id = toolCalls[n].id
    /\ \A m, n \in 1..Len(FedBack) : m # n => FedBack[m].id # FedBack[n].id

\* C19: every tool result fed back in the final generation call carries the
\* identifier of the tool call it answers, and the identifiers tell the
\* results of one turn apart, on every provider path.
C19_ResultsCarryCallId ==
    sentFinal # << >> => ResultsIdentified

\* the OpenAI paths do attach tool_call_id
OpenAIResultsCarryCallId ==
    (sentFinal # << >> /\ LastAttempt.p = "openai") => ResultsIdentified

-----------------------------------------------------------------------------
(* Web search without a Brave key *)

\* C21: a well-formed search_web call made while BRAVE_SEARCH_API_KEY is
\* absent still gets a result that is not an error (the simulated results
\* the README promises).  Stated on the handler whose tool switch reads the
\* key itself (route.ts 327-332).
C21_SimulatedWithoutBraveKey ==
    handler = "single" =>
        \A n \in 1..Len(toolResults) :
            LET call == toolCalls[toolResults[n].call] IN
            (/\ call.name = "search_web"
             /\ call.args = "ok"
             /\ "BRAVE_SEARCH_API_KEY" \notin keys) => ~toolResults[n].error

-----------------------------------------------------------------------------
(* Tool calls whose arguments are not JSON *)

BadArguments(call) == call.args = "bad json"

\* C22: a tool call whose arguments do not parse never ends the provider's
\* turn; it gets an error result attached to it, and the final generation
\* call is made with a result for every such call.
C22_BadArgumentsBecomeErrorResult ==
    /\ \A n \in 1..Len(attempts) : attempts[n].outcome # "parse"
    /\ \A n \in 1..Len(toolResults) :
            BadArguments(toolCalls[toolResults[n].call]) => toolResults[n].error
    /\ pc = "gen2" =>
            \A j \in 1..Len(toolCalls) :
                BadArguments(toolCalls[j]) =>
                    \E n \in 1..Len(toolResults) : toolResults[n].call = j

-----------------------------------------------------------------------------
(* GeminiService.generateResponse on its own: the text protocol             *)

\* no request is being served
RequestIdle ==
    /\ handler = "multi"
    /\ keys = { }
    /\ body = BadJson
    /\ preferred = NoValue
    /\ now = NoValue
    /\ avail = << >>
    /\ selected = NoValue
    /\ i = 0
    /\ messages = << >>
    /\ toolCalls = << >>
    /\ k = 0
    /\ timerFired = FALSE
    /\ toolResults = << >>
    /\ sources = << >>
    /\ finalResponse = EmptyText
    /\ usedProvider = NoValue
    /\ response = NoResponse
    /\ sentFirst = << >>
    /\ sentFinal = << >>
    /\ trace = << >>
    /\ caught = NothingCaught
    /\ attempts = << >>
    /\ nGen = 0
    /\ nTools = 0
    /\ produced = << >>
    /\ errorLog = FALSE

\* lines the model can write: the lines of the protocol, tagged lines with
\* a field too many or too few, lines that only look tagged, and the
\* sentinel inside a sentence
ProtocolLines ==
    LineKinds \cup
    { << "REDDIT", "q", "sub", "extra" >>, << "REDDIT", "q", "" >>, << "REDDIT", "" >>,
      << "REDDIT" >>, << " REDDIT", "q" >>, << "reddit", "q", "sub" >>,
      << "WEB", "q", "r" >>, << "WEB" >>, << "maybe SEARCH_NEEDED applies" >> }

ProtocolTexts == SeqsUpTo(ProtocolLines, MaxLines)

ParserInit ==
    /\ pc = "makeGeminiRequest"
    /\ RequestIdle
    /\ TokenCacheIdle
    /\ PageIdle
    /\ RegistryIdle
    /\ SearchIdle
    /\ responseText \in ProtocolTexts
    /\ geminiResponse = NoGeminiResponse
    /\ searched = << >>

\* lines 100-135: makeGeminiRequest has returned responseText
GenerateResponse ==
    /\ pc = "makeGeminiRequest"
    /\ pc' = "returned"
    /\ geminiResponse' = generateResponse(responseText)
    /\ UNCHANGED << Request, TokenCache, Page, Registry, Search, responseText, searched >>

\* POST, lines 192-203: the tool queries of the response are executed in
\* order, each through executeToolCall
ExecuteToolQueries ==
    /\ pc = "returned"
    /\ geminiResponse.needsTools /\ Len(geminiResponse.toolQueries) > 0
    /\ pc' = "searched"
    /\ searched' = [n \in 1..Len(geminiResponse.toolQueries) |->
                        LET toolQuery == geminiResponse.toolQueries[n]
                        IN  Invocation(toolQuery.type, GeminiArgs(toolQuery))]
    /\ UNCHANGED << Request, TokenCache, Page, Registry, Search, responseText, geminiResponse >>

ParserNext == GenerateResponse \/ ExecuteToolQueries

ParserSpec == ParserInit /\ [][ParserNext]_vars

\* a line beginning with REDDIT: or WEB:
Tagged(line) == Len(line) >= 2 /\ line[1] \in { "REDDIT", "WEB" }

TaggedLines(text) == SelectSeq(text, Tagged)

\* the query a tagged line asks for
QueryOf(line, q) ==
    IF line[1] = "REDDIT"
    THEN /\ q.type = "search_reddit"
         /\ q.query = << line[2] >>
         /\ (Len(line) = 2 => q.subreddit = NoValue)
         /\ (Len(line) > 2 => q.subreddit = line[3])
    ELSE /\ q.type = "search_web"
         /\ q.query = Tail(line)

\* C23: generateResponse returns for every text.  With the sentinel in the
\* text it returns one query per line beginning with REDDIT: or WEB:, in
\* line order, a REDDIT line without a subreddit field giving an undefined
\* subreddit, and nothing for any other line; without the sentinel it
\* returns no query.
C23_OneQueryPerTaggedLine ==
    pc = "returned" =>
        LET tagged == TaggedLines(responseText)
            qs     == geminiResponse.toolQueries
        IN  /\ geminiResponse.message = responseText
            /\ geminiResponse.needsTools = HasSentinel(responseText)
            /\ ~HasSentinel(responseText) => qs = << >>
            /\ HasSentinel(responseText) =>
                   /\ Len(qs) = Len(tagged)
                   /\ \A n \in 1..Len(qs) : QueryOf(tagged[n], qs[n])

\* the sentinel, a REDDIT line without subreddit, and a line that is skipped
C23_Witness ==
    /\ pc = "returned"
    /\ responseText = << << "SEARCH_NEEDED" >>, << " REDDIT", "q" >>, << "REDDIT", "q" >> >>
    /\ Len(geminiResponse.toolQueries) = 1
    /\ geminiResponse.toolQueries[1].subreddit = NoValue

-----------------------------------------------------------------------------
(* The failure that is classified.  The multi-provider handler is followed  *)
(* with the error of every failed turn on record.                           *)

FailoverInit ==
    /\ handler = "multi"
    /\ keys \in MultiKeys
    /\ body = << UserMsg, AssistantMsg >>
    /\ preferred \in Preferred
    /\ now = NoValue
    /\ pc = "start"
    /\ avail = << >>
    /\ selected = NoValue
    /\ i = 0
    /\ messages = << >>
    /\ toolCalls = << >>
    /\ k = 0
    /\ timerFired = FALSE
    /\ toolResults = << >>
    /\ sources = << >>
    /\ finalResponse = EmptyText
    /\ usedProvider = NoValue
    /\ response = NoResponse
    /\ sentFirst = << >>
    /\ sentFinal = << >>
    /\ trace = << >>
    /\ caught = NothingCaught
    /\ attempts = << >>
    /\ nGen = 0
    /\ nTools = 0
    /\ produced = << >>
    /\ errorLog = TRUE
    /\ AsideIdle

FailoverNext ==
    \/ POST
    \/ GeminiGenerateResponse
    \/ OpenAICreate
    \/ ToolSettles
    \/ ToolTimerFires
    \/ GeminiGenerateWithToolResults
    \/ OpenAIFinalCompletion

FailoverSpec == FailoverInit /\ [][FailoverNext]_vars

\* C24: when the chain is exhausted, the error that is classified is the one
\* the last attempted provider threw, and the response is the classification
\* of that error whatever the earlier providers threw.
C24_LastFailureClassified ==
    caught.raised =>
        /\ \A n \in 1..Len(attempts) : Failed(n)
        /\ caught.err = LastAttempt.err
        /\ response = Classify(LastAttempt.err)

\* two providers failed, with errors of different classes
C24_Witness ==
    /\ caught.raised
    /\ Len(attempts) = 2
    /\ attempts[1].err = { "rate limit" }
    /\ attempts[2].err = { "timeout" }
    /\ response.status = 408

-----------------------------------------------------------------------------
(* Termination.  The handler is suspended at an await until it responds;   *)
(* the awaited generation call or search collaborator call eventually      *)
(* returns or throws, and the handler then runs to its next await.  Such a *)
(* step changes the position below; the timer of the multi-provider        *)
(* handler firing does not, and nothing is assumed of it.                  *)

position == << pc, nGen, nTools >>

\* the awaited call settles and the handler moves on
AwaitSettles ==
    /\ pc # "done"
    /\ pc' \in { "start", "gen1", "tool", "gen2", "done" }
    /\ nGen' \in nGen..(nGen + 1)
    /\ nTools' \in nTools..(nTools + MaxTools)

LiveSpec == Init /\ [][Next]_vars /\ WF_position(AwaitSettles)

\* the call the handler is suspended at, as the guards of the actions see it
Awaited ==
    \/ pc = "start" /\ handler \in Handlers
    \/ pc \in { "gen1", "gen2" } /\ handler = "single"
    \/ pc \in { "gen1", "gen2" } /\ handler = "multi" /\ i < Len(avail)
                                 /\ Current \in { "gemini", "openai" }
    \/ pc = "tool" /\ k \in 1..Len(toolCalls) /\ Outcomes(toolCalls[k].name) # { }

Responded == response # NoResponse

\* C25: every request is eventually answered (until then the handler is
\* suspended at a call that can settle); the answer, once given, is the
\* only one; and at no point has the handler made more generation calls
\* than twice the number of available providers.
C25_AnsweredOnceWithinBound ==
    /\ <>(pc = "done" /\ Responded)
    /\ [](pc # "done" => Awaited)
    /\ [](Responded <=> pc = "done")
    /\ [][Responded => response' = response]_vars
    /\ [](nGen <= 2 * Len(avail))

\* two providers, each made its first and its final generation call
C25_Witness ==
    /\ pc = "done"
    /\ Responded
    /\ Len(avail) = 2
    /\ nGen = 4

-----------------------------------------------------------------------------
(* getAccessToken on the shared Reddit service.  Each caller tokenCalls it once; *)
(* a call that finds no valid token awaits the token endpoint, and other    *)
(* calls run meanwhile.  Between two awaits a call runs alone.              *)

Callers == 1..MaxCallers

\* seconds of expires_in, in minutes
Lifetimes == { 1, 2 }

NothingSeen == [token |-> NoToken, expiry |-> 0, t |-> 0]

IdleCall == [at |-> "idle", seen |-> NothingSeen, result |-> NoToken, fetched |-> FALSE]

Cache == [accessToken |-> accessToken, tokenExpiry |-> tokenExpiry]

TokenInit ==
    /\ pc = "getAccessToken"
    /\ RequestIdle
    /\ ParserIdle
    /\ PageIdle
    /\ RegistryIdle
    /\ SearchIdle
    /\ client \in RedditClasses
    /\ accessToken = NoToken
    /\ tokenExpiry = 0
    /\ clock = 0
    /\ tokenCalls = [c \in Callers |-> IdleCall]
    /\ refreshes = << >>

TokenFrame == UNCHANGED << pc, Request, Parser, Page, Registry, Search, client >>

\* what the call saw when it looked at the cache
Seen == [token |-> accessToken, expiry |-> tokenExpiry, t |-> clock]

\* reddit.ts 222-239: the cache check, then the await of the token request
GetAccessToken(c) ==
    /\ tokenCalls[c].at = "idle"
    /\ IF CacheValid(accessToken, tokenExpiry, clock)
       THEN tokenCalls' = [tokenCalls EXCEPT ![c] = [at |-> "returned", seen |-> Seen,
                                           result |-> accessToken, fetched |-> FALSE]]
       ELSE tokenCalls' = [tokenCalls EXCEPT ![c] = [at |-> "fetch", seen |-> Seen,
                                           result |-> NoToken, fetched |-> TRUE]]
    /\ UNCHANGED << accessToken, tokenExpiry, clock, refreshes >>
    /\ TokenFrame

\* an entry of the log: the response and what the cache held after it
Processed(c, token, lifetime, cache) ==
    [caller |-> c, token |-> token, lifetime |-> lifetime, t |-> clock, stored |-> cache]

\* reddit.ts 241-248: the response carries a token and its lifetime
TokenResponse(c) ==
    /\ tokenCalls[c].at = "fetch"
    /\ \E lifetime \in Lifetimes :
          LET token == Len(refreshes) + 1
              cache == Store(Cache, token, lifetime, clock)
          IN  /\ accessToken' = cache.accessToken
              /\ tokenExpiry' = cache.tokenExpiry
              /\ refreshes' = Append(refreshes, Processed(c, token, lifetime, cache))
              /\ tokenCalls' = [tokenCalls EXCEPT ![c].at = "returned", ![c].result = cache.accessToken]
    /\ UNCHANGED clock
    /\ TokenFrame

\* the response carries no access_token.  RedditService has stored '' and
\* the default expiry before it throws (reddit.ts 241-246); RedditClient
\* throws without writing.
NoTokenResponse(c) ==
    /\ tokenCalls[c].at = "fetch"
    /\ LET cache == IF client = "RedditService"
                    THEN Store(Cache, EmptyToken, DefaultLifetime, clock)
                    ELSE Cache
       IN  /\ accessToken' = cache.accessToken
           /\ tokenExpiry' = cache.tokenExpiry
           /\ refreshes' = Append(refreshes, Processed(c, EmptyToken, DefaultLifetime, cache))
    /\ tokenCalls' = [tokenCalls EXCEPT ![c].at = "threw"]
    /\ UNCHANGED clock
    /\ TokenFrame

\* the token request itself fails (reddit.ts 249-252)
TokenRequestFails(c) ==
    /\ tokenCalls[c].at = "fetch"
    /\ tokenCalls' = [tokenCalls EXCEPT ![c].at = "threw"]
    /\ UNCHANGED << accessToken, tokenExpiry, clock, refreshes >>
    /\ TokenFrame

Tick ==
    /\ clock < MaxTime
    /\ clock' = clock + 1
    /\ UNCHANGED << accessToken, tokenExpiry, tokenCalls, refreshes >>
    /\ TokenFrame

TokenNext ==
    \/ \E c \in Callers : GetAccessToken(c)
    \/ \E c \in Callers : TokenResponse(c)
    \/ \E c \in Callers : NoTokenResponse(c)
    \/ \E c \in Callers : TokenRequestFails(c)
    \/ Tick

TokenSpec == TokenInit /\ [][TokenNext]_vars

\* a token is cached
Cached(token) == token # NoToken /\ token # EmptyToken

\* the responses processed for caller c
RefreshesOf(c) == { n \in 1..Len(refreshes) : refreshes[n].caller = c }

\* C26: a call returns the cached token without a token request exactly
\* when it finds a token cached and the time before the stored expiry;
\* otherwise it makes one token request, and when the response carries a
\* token the call stores it with expiry = time of the response + lifetime
\* - one minute and returns it.  No cached token is returned at or after
\* its expiry.
C26_CachedUntilExpiry ==
    \A c \in Callers :
        LET call == tokenCalls[c] IN
        /\ call.at # "idle" =>
              (~call.fetched <=> (Cached(call.seen.token) /\ call.seen.t < call.seen.expiry))
        /\ (call.at = "returned" /\ ~call.fetched) =>
              /\ call.result = call.seen.token
              /\ call.seen.t < call.seen.expiry
              /\ RefreshesOf(c) = { }
        /\ Cardinality(RefreshesOf(c)) <= 1
        /\ (call.at = "returned" /\ call.fetched) =>
              \E n \in RefreshesOf(c) :
                  /\ refreshes[n].token = call.result
                  /\ Cached(call.result)
                  /\ refreshes[n].stored =
                        [accessToken |-> call.result,
                         tokenExpiry |-> refreshes[n].t + refreshes[n].lifetime - Buffer]

\* one call refreshed, a second call was served from the cache, and the
\* clock has since reached the stored expiry
C26_Witness ==
    /\ tokenCalls[1].at = "returned" /\ tokenCalls[1].fetched
    /\ tokenCalls[2].at = "returned" /\ ~tokenCalls[2].fetched
    /\ tokenCalls[2].result = tokenCalls[1].result
    /\ clock >= tokenExpiry

\* the stored token and the stored expiry come from one response
FromOneResponse ==
    Cached(accessToken) =>
        \E n \in 1..Len(refreshes) :
            /\ refreshes[n].token = accessToken
            /\ tokenExpiry = refreshes[n].t + refreshes[n].lifetime - Buffer

\* every call that returned has a token that a response carried
ReturnedRefreshedToken ==
    \A c \in Callers :
        tokenCalls[c].at = "returned" =>
            /\ Cached(tokenCalls[c].result)
            /\ \E n \in 1..Len(refreshes) : refreshes[n].token = tokenCalls[c].result

\* a response that arrives while the cache holds a valid token (the
\* response of a redundant refresh) leaves a refreshed token in the cache
RedundantKeepsToken ==
    CacheValid(accessToken, tokenExpiry, clock) => Cached(accessToken')

\* C27: in every interleaving of getAccessToken calls the stored token and
\* expiry come from the same response, every call that returns has a token
\* of a successful refresh, and a redundant refresh leaves the cache holding
\* a refreshed token.
C27_ConcurrentCallsKeepCache ==
    /\ [](FromOneResponse /\ ReturnedRefreshedToken)
    /\ [][RedundantKeepsToken]_vars

\* the first two parts of C27 do hold
TokenAndExpiryTogether == FromOneResponse /\ ReturnedRefreshedToken

-----------------------------------------------------------------------------
(* ChatPage.  The handlers read the state of the render in which they were  *)
(* created (shown).  React renders before the next event once an event      *)
(* handler has set state; after the continuation of an await has set state  *)
(* the render comes later.                                                   *)

\* what the user can have typed into the input
Typed == { "", " ", "pizza ", "sushi" }

\* String.prototype.trim
Trim(text) == IF text = " " THEN "" ELSE IF text = "pizza " THEN "pizza" ELSE text

NoSources == << >>

Greeting == [role |-> "assistant", content |-> "Hi!", sources |-> NoSources]

ClearedGreeting == [role |-> "assistant", content |-> "Chat cleared!", sources |-> NoSources]

\* how the fetch of a chat request settles: a 200 with an answer, a 200
\* whose body has an error field, another status, or a rejected fetch
Settlements == { "answer", "error field", "HTTP error", "rejected" }

\* error.message of what the try block threw (page.tsx 75-83, 96)
ErrorMessage(how) ==
    IF how = "HTTP error" THEN "HTTP error! status: 500"
    ELSE IF how = "error field" THEN "data.error"
    ELSE "Failed to fetch"

AssistantForNoErrorText(how) ==
    IF how = "answer"
    THEN [role |-> "assistant", content |-> "answer", sources |-> << "u1" >>]
    ELSE [role |-> "assistant", content |-> << "I apologize, but I encountered an error" >>,
          sources |-> NoSources]

\* the assistant message appended when the request settles (page.tsx 85-106)
AssistantFor(how) ==
    IF how = "answer"
    THEN [role |-> "assistant", content |-> "answer", sources |-> << "u1" >>]
    ELSE [role |-> "assistant",
          content |-> << "I apologize, but I encountered an error: ", ErrorMessage(how),
                         ". Please try again or rephrase your question." >>,
          sources |-> NoSources]

Rendered == [messages |-> chat, input |-> input, isLoading |-> isLoading]

RequestBodyNewMessageOnly(msgs, userMessage) ==
    << [role |-> userMessage.role, content |-> userMessage.content] >>

\* [...messages, userMessage].map(({ role, content }) => ({ role, content }))
RequestBody(msgs, userMessage) ==
    LET all == Append(msgs, userMessage)
    IN  [n \in 1..Len(all) |-> [role |-> all[n].role, content |-> all[n].content]]

PageInit ==
    /\ pc = "ChatPage"
    /\ RequestIdle
    /\ ParserIdle
    /\ TokenCacheIdle
    /\ RegistryIdle
    /\ SearchIdle
    /\ chat = << Greeting >>
    /\ input = ""
    /\ isLoading = FALSE
    /\ shown = [messages |-> << Greeting >>, input |-> "", isLoading |-> FALSE]
    /\ inFlight = 0
    /\ requests = << >>
    /\ ignored = { }
    /\ outcomes = << >>
    /\ cleared = FALSE

PageFrame == UNCHANGED << pc, Request, Parser, TokenCache, Registry, Search >>

\* onChange={(e) => setInput(e.target.value)}; the input is disabled while
\* the page shows isLoading
Type(text) ==
    /\ ~shown.isLoading
    /\ input' = text
    /\ shown' = [messages |-> chat, input |-> text, isLoading |-> isLoading]
    /\ UNCHANGED << chat, isLoading, inFlight, requests, ignored, outcomes, cleared >>
    /\ PageFrame

\* why line 50 returns
Reasons(empty, loading) ==
    (IF empty THEN { "empty" } ELSE { }) \cup (IF loading THEN { "loading" } ELSE { })

\* a handleSubmit without the guard of line 50
SubmitUnguarded ==
    /\ Len(requests) < MaxSubmits
    /\ LET userMessage == [role |-> "user", content |-> Trim(shown.input),
                           sources |-> NoSources]
       IN  /\ chat' = Append(chat, userMessage)
           /\ input' = ""
           /\ isLoading' = TRUE
           /\ inFlight' = inFlight + 1
           /\ requests' = Append(requests,
                                 [body |-> RequestBody(shown.messages, userMessage),
                                  chat |-> chat, user |-> userMessage])
           /\ shown' = [messages |-> Append(chat, userMessage), input |-> "",
                        isLoading |-> TRUE]
           /\ cleared' = FALSE
           /\ UNCHANGED << ignored, outcomes >>
    /\ PageFrame

\* handleSubmit up to the await of fetch (page.tsx 48-73)
Submit ==
    /\ (Trim(shown.input) = "" \/ shown.isLoading) \/ Len(requests) < MaxSubmits
    /\ IF Trim(shown.input) = "" \/ shown.isLoading
       THEN /\ ignored' = ignored \cup Reasons(Trim(shown.input) = "", shown.isLoading)
            /\ UNCHANGED << chat, input, isLoading, shown, inFlight, requests,
                            outcomes, cleared >>
       ELSE LET userMessage == [role |-> "user", content |-> Trim(shown.input),
                                sources |-> NoSources]
            IN  /\ cleared' = FALSE
                /\ UNCHANGED << ignored, outcomes >>
                /\ chat' = Append(chat, userMessage)
                /\ input' = ""
                /\ isLoading' = TRUE
                /\ inFlight' = inFlight + 1
                /\ requests' = Append(requests,
                                      [body |-> RequestBody(shown.messages, userMessage),
                                       chat |-> chat, user |-> userMessage])
                /\ shown' = [messages |-> Append(chat, userMessage), input |-> "",
                             isLoading |-> TRUE]
    /\ PageFrame

\* handleSubmit after the await (page.tsx 75-109)
RequestSettles ==
    /\ inFlight > 0
    /\ \E how \in Settlements :
            /\ chat' = Append(chat, AssistantFor(how))
            /\ outcomes' = Append(outcomes, how)
    /\ isLoading' = FALSE
    /\ inFlight' = inFlight - 1
    /\ UNCHANGED << input, shown, requests, ignored, cleared >>
    /\ PageFrame

\* clearChat (page.tsx 112-120)
ClearChat ==
    /\ chat' = << ClearedGreeting >>
    /\ shown' = [messages |-> << ClearedGreeting >>, input |-> input, isLoading |-> isLoading]
    /\ cleared' = TRUE
    /\ UNCHANGED << input, isLoading, inFlight, requests, ignored, outcomes >>
    /\ PageFrame

\* React renders the state set by a continuation
Render ==
    /\ shown # Rendered
    /\ shown' = Rendered
    /\ UNCHANGED << chat, input, isLoading, inFlight, requests, ignored, outcomes, cleared >>
    /\ PageFrame

PageNext ==
    \/ \E text \in Typed : Type(text)
    \/ Submit
    \/ RequestSettles
    \/ ClearChat
    \/ Render

PageSpec == PageInit /\ [][PageNext]_vars

\* the browser settles every fetch: with a response or with a rejection
PageLiveSpec == PageInit /\ [][PageNext]_vars /\ WF_vars(RequestSettles)

\* role and content of every message of a list
RoleAndContent(msgs) ==
    [n \in 1..Len(msgs) |-> [role |-> msgs[n].role, content |-> msgs[n].content]]

\* C28: every chat request carries the role and content of every message
\* that was in the chat when it was submitted, in order, followed by the
\* user message just submitted.
C28_RequestCarriesWholeChat ==
    \A n \in 1..Len(requests) :
        requests[n].body =
            RoleAndContent(requests[n].chat)
                \o << [role |-> "user", content |-> requests[n].user.content] >>

\* the second request of a session: greeting, question, answer, question
C28_Witness ==
    /\ Len(requests) = 2
    /\ Len(requests[2].body) = 4
    /\ requests[2].body[3] = [role |-> "assistant", content |-> "answer"]
    /\ requests[2].body[4].role = "user"

-----------------------------------------------------------------------------
(* Sources and the provider of the envelope *)

\* sources returned by the tool calls of the turn that has just ended
SourcesOfTurn == UNION { Range(toolResults[n].sources) : n \in 1..Len(toolResults) }

\* C29: every source of the envelope was returned by a tool call of the
\* turn of the provider the envelope names: what a provider that failed
\* had collected is not reported.
C29_SourcesFromProvidersTurn ==
    (handler = "multi" /\ response.status = 200) =>
        /\ response.provider = LastAttempt.p
        /\ Range(response.sources) \subseteq SourcesOfTurn

\* C30: when the first Gemini response of the turn contained the sentinel,
\* the message of the envelope is a text of the final generation call, and
\* never a text with the sentinel in it.
C30_SentinelNeverReturned ==
    (response.status = 200 /\ response.provider = "gemini") =>
        ~HasSentinel(response.message)


-----------------------------------------------------------------------------
(* The subreddit hint of a REDDIT line                                      *)

\* a REDDIT line whose third field names a subreddit
CarriesHint(line) ==
    Len(line) >= 3 /\ line[1] = "REDDIT" /\ line[3] # ""

\* C31: when a REDDIT line of the Gemini protocol carries a subreddit hint,
\* the community search made for that line's tool query is called with the
\* hint among its subreddits.
C31_HintReachesSearch ==
    pc = "searched" =>
        LET tagged == TaggedLines(responseText)
        IN  \A n \in 1..Len(tagged) :
                CarriesHint(tagged[n]) =>
                    /\ searched[n].fn = "searchReddit"
                    /\ searched[n].subreddits # NoValue
                    /\ tagged[n][3] \in Range(searched[n].subreddits)


-----------------------------------------------------------------------------
(* getAvailableProviders on its own: the registry holds any descriptors     *)

ProviderNames == { "gemini", "openai", "claude" }

Descriptors == [name : ProviderNames, enabled : BOOLEAN, priority : 1..2]

\* arrays of two descriptors with different names
Registries ==
    { table \in [1..2 -> Descriptors] : table[1].name # table[2].name }

EnvKeys == { "GEMINI_API_KEY", "OPENAI_API_KEY" }

RegistryInit ==
    /\ pc = "loaded"
    /\ RequestIdle
    /\ ParserIdle
    /\ TokenCacheIdle
    /\ PageIdle
    /\ SearchIdle
    /\ providers \in Registries
    /\ env \in SUBSET EnvKeys
    /\ available = NotListed

\* lines 34-40; the clients were constructed from the same process.env
GetAvailableProviders ==
    /\ pc = "loaded"
    /\ pc' = "listed"
    /\ available' = AvailableIn(providers, env)
    /\ UNCHANGED << Request, Parser, TokenCache, Page, Search, providers, env >>

RegistryNext == GetAvailableProviders

RegistrySpec == RegistryInit /\ [][RegistryNext]_vars

-----------------------------------------------------------------------------
(* One tool call down to its search backend: RedditService.searchReddit     *)
(* (lib/reddit.ts) and the two versions of WebSearchClient                  *)

SearchTools == { [name |-> "search_reddit", library |-> "lib/reddit.ts"],
                 [name |-> "search_web",    library |-> "part_004"],
                 [name |-> "search_web",    library |-> "part_005"] }

\* urls of the posts or results a backend answers with
UrlLists == { << "u1" >>, << "u2", "u1" >> }

\* the Reddit API: the token request, then the searches of the subreddits
RedditBackends ==
    [auth : { "token", "fails" }, search : { "posts", "error", "no posts" }, urls : UrlLists]

\* the Brave API behind fetch, and whether BRAVE_SEARCH_API_KEY is set
WebBackends ==
    [key : BOOLEAN, fetch : { "results", "not ok", "rejects", "no results" }, urls : UrlLists]

BackendsOf(t) == IF t.name = "search_reddit" THEN RedditBackends ELSE WebBackends

Returns(urls) == [kind |-> "return", sources |-> urls]
Throws == [kind |-> "throw", sources |-> << >>]

\* lib/reddit.ts 502-527: sources: simulatedPosts.map(post => post.url)
generateIntelligentFallback ==
    Returns(<< "https://reddit.com/r/food/comments/simulated1" >>)

\* lib/reddit.ts 406-488: getAccessToken throws into the outer catch; a failed
\* search of a subreddit is caught inside the loop and skipped
searchReddit(b) ==
    IF b.auth = "fails" THEN generateIntelligentFallback
    ELSE IF b.search = "posts" THEN Returns(b.urls)
    ELSE Returns(<< >>)

\* part_005 395-415, mapped to urls by searchWeb (line 430)
getSimulatedResults ==
    << "https://example.com/restaurants", "https://example.com/local-restaurants" >>

\* WebSearchClient.search followed by results.map(result => result.url)
searchWeb(library, b) ==
    IF library = "part_004"
    THEN IF ~b.key THEN Throws
         ELSE IF b.fetch = "results" THEN Returns(b.urls)
         ELSE IF b.fetch = "no results" THEN Returns(<< >>)
         ELSE Throws
    ELSE IF ~b.key \/ b.fetch # "results" THEN Returns(getSimulatedResults)
         ELSE Returns(b.urls)

SearchInit ==
    /\ pc = "called"
    /\ RequestIdle
    /\ ParserIdle
    /\ TokenCacheIdle
    /\ PageIdle
    /\ RegistryIdle
    /\ tool \in SearchTools
    /\ backend \in BackendsOf(tool)
    /\ searchOutcome = NoOutcome
    /\ toolSources = << >>
    /\ reported = << >>

SearchFrame == UNCHANGED << Request, Parser, TokenCache, Page, Registry, tool, backend >>

\* executeToolCall line 77: await searchReddit(args.query, args.subreddits)
SearchRedditSettles ==
    /\ pc = "called"
    /\ tool.name = "search_reddit"
    /\ pc' = "settled"
    /\ searchOutcome' = searchReddit(backend)
    /\ UNCHANGED << toolSources, reported >>
    /\ SearchFrame

\* executeToolCall line 83: await searchWeb(args.query, args.focus)
SearchWebSettles ==
    /\ pc = "called"
    /\ tool.name = "search_web"
    /\ pc' = "settled"
    /\ searchOutcome' = searchWeb(tool.library, backend)
    /\ UNCHANGED << toolSources, reported >>
    /\ SearchFrame

\* executeToolCall lines 78-105 return { result, sources }
ExecuteToolCallReturns ==
    /\ pc = "settled"
    /\ pc' = "executed"
    /\ toolSources' = executeToolCall(tool.name, "ok", searchOutcome).sources
    /\ UNCHANGED << searchOutcome, reported >>
    /\ SearchFrame

\* POST: sources.push(...toolSources), cleaned for the envelope (lines 201, 281-290)
SourcesReported ==
    /\ pc = "executed"
    /\ pc' = "reported"
    /\ reported' = CleanSources("multi", toolSources)
    /\ UNCHANGED << searchOutcome, toolSources >>
    /\ SearchFrame

SearchNext ==
    \/ SearchRedditSettles
    \/ SearchWebSettles
    \/ ExecuteToolCallReturns
    \/ SourcesReported

SearchSpec == SearchInit /\ [][SearchNext]_vars

\* Reddit authentication or every Reddit search failed, or the Brave request
\* failed
BackendFailed ==
    IF tool.name = "search_reddit"
    THEN backend.auth = "fails" \/ backend.search = "error"
    ELSE backend.key /\ backend.fetch \in { "not ok", "rejects" }

\* C33: when Reddit authentication or the Reddit search fails, or the web
\* search backend fails, the tool call contributes no source to the
\* envelope: no simulated entry is reported as a source.
C33_NoSimulatedSources ==
    (pc = "reported" /\ BackendFailed) => reported = << >>


-----------------------------------------------------------------------------
(* ChatPage: submits, responses and clearChat                               *)

\* C34: at most one chat request is in flight.  handleSubmit sends a request
\* only when none is pending and the trimmed input is not empty; a submit
\* it ignores changes nothing on the page.
C34_OneRequestInFlight ==
    /\ [](inFlight <= 1)
    /\ [][requests' # requests => (inFlight = 0 /\ Trim(input) # "")]_vars
    /\ [][ignored' # ignored =>
            UNCHANGED << chat, input, isLoading, inFlight, requests >>]_vars

\* a submit made while the only request was pending has been ignored
C34_Witness ==
    /\ "loading" \in ignored
    /\ inFlight = 1
    /\ Len(requests) = 1

\* C35: from clearChat until the next submitted message the chat is the
\* 'Chat cleared' greeting alone, also when a request was in flight.
C35_ClearedStaysCleared ==
    cleared => chat = << ClearedGreeting >>

\* the message a settled request must leave in the chat
IsAssistantFor(message, how) ==
    /\ message.role = "assistant"
    /\ how = "answer" => message.content = "answer"
    /\ how # "answer" =>
           /\ Len(message.content) = 3
           /\ message.content[1] = "I apologize, but I encountered an error: "
           /\ message.content[2] = ErrorMessage(how)

\* C36: an accepted submit appends the user message and sets isLoading; the
\* settling of its request appends one assistant message, the answer or an
\* apology with the error text, and resets isLoading; nothing else appends.
\* isLoading is true exactly while a request is pending and always becomes
\* false again.
C36_OneAnswerPerSubmit ==
    /\ [][requests' # requests =>
            /\ chat' = Append(chat, [role |-> "user", content |-> Trim(input),
                                     sources |-> NoSources])
            /\ isLoading']_vars
    /\ [][outcomes' # outcomes =>
            /\ Len(chat') = Len(chat) + 1
            /\ SubSeq(chat', 1, Len(chat)) = chat
            /\ IsAssistantFor(chat'[Len(chat')], outcomes'[Len(outcomes')])
            /\ ~isLoading']_vars
    /\ [][Len(chat') > Len(chat) => (requests' # requests \/ outcomes' # outcomes)]_vars
    /\ [](Len(requests) = Len(outcomes) + inFlight)
    /\ [](isLoading <=> inFlight > 0)
    /\ (isLoading ~> ~isLoading)

\* an answered request, then one whose fetch was rejected
C36_Witness ==
    /\ outcomes = << "answer", "rejected" >>
    /\ ~isLoading
    /\ Len(chat) = 5
    /\ chat[5].content[2] = "Failed to fetch"


-----------------------------------------------------------------------------
(* Failed token refreshes                                                    *)

\* the token request of call c failed, or its response carried no token
RefreshFailed(c) ==
    /\ tokenCalls[c].fetched
    /\ tokenCalls[c].at \in { "returned", "threw" }
    /\ \A n \in RefreshesOf(c) : refreshes[n].token = EmptyToken

\* C37: a call whose refresh failed has thrown.  No call returns an empty or
\* a missing token, and a call that finds an empty or a missing token in the
\* cache, whatever expiry is stored with it, makes a token request.
C37_FailedRefreshNotCached ==
    \A c \in Callers :
        LET call == tokenCalls[c] IN
        /\ RefreshFailed(c) => call.at = "threw"
        /\ call.at = "threw" => RefreshFailed(c)
        /\ call.at = "returned" => Cached(call.result)
        /\ (call.at # "idle" /\ ~Cached(call.seen.token)) => call.fetched

\* RedditService: the first call threw on a response without a token, which
\* left '' and an expiry in the future; the second call made a token request
\* and returned its token
C37_Witness ==
    /\ client = "RedditService"
    /\ tokenCalls[1].at = "threw"
    /\ tokenCalls[2].seen.token = EmptyToken
    /\ tokenCalls[2].seen.t < tokenCalls[2].seen.expiry
    /\ tokenCalls[2].fetched
    /\ tokenCalls[2].at = "returned"

=============================================================================
